---- MODULE Spec2Model ----
(***************************************************************************)
(* State-machine model of the client-side models of KonText:               *)
(*   - TextTypesModel        (models/textTypes/main.ts)                    *)
(*   - SubcMixerModel        (subcmixer plug-in model)                     *)
(*   - SubcorpListModel      (models/subcorp/list)                         *)
(*   - importEncodedOperation (models/query/replay/common.ts)              *)
(* Each model has its own specification (SpecTT, SpecMixer, ...); the      *)
(* variables of the other models stay at their initial values there.       *)
(***************************************************************************)
EXTENDS Integers, Sequences, FiniteSets, TLC

VARIABLES
    \* ---- TextTypesModelState
    attributes,         \* state.attributes (a wrapped list, see Undefined)
    selectionHistory,   \* state.selectionHistory
    selectAll,          \* state.selectAll
    metaInfo,           \* state.metaInfo
    minimizedBoxes,     \* state.minimizedBoxes
    ttIsBusy,           \* state.isBusy of TextTypesModel
    autoCompleteSupport,\* state.autoCompleteSupport
    hasSelectedItems,   \* state.hasSelectedItems
    bibLabelAttr,       \* state.bibLabelAttr
    bibIdAttr,          \* state.bibIdAttr
    initialData,        \* the InitialData the constructor was called with
    ttLast,             \* the last action TextTypesModel.onAction handled: its
                        \* name, whether the handler threw, and the number of
                        \* TT_SELECTION_CHANGED actions it dispatched
    ttListening,        \* onAction is still subscribed to the dispatcher
    \* ---- dispatcher
    mixerListening,     \* SubcMixerModel is registered (the plug-in is installed)
    \* ---- SubcMixerModelState
    ttAttributes,       \* state.ttAttributes
    ttInitialAvailableValues, \* state.ttInitialAvailableValues
    shares,             \* state.shares
    currentResult,      \* state.currentResult
    mixerIsBusy,        \* state.isBusy of SubcMixerModel
    isVisible,          \* state.isVisible
    numOfErrors,        \* state.numOfErrors
    mixerPending,       \* subcmixer_run_calc requests without a response
    createPending,      \* subcmixer_create_subcorpus requests without a response
    mixerLast,          \* the last action SubcMixerModel handled: its name,
                        \* whether submitTask rejected it, and the number of
                        \* messages its handler showed
    \* ---- safeCalcInitialRatio over the indices of one group
    numItems,           \* the size of the group
    currIdx,            \* the next index to compute
    ratioCurr,          \* the value computed last (tenths of a percent)
    ratioSum,           \* the sum of the values computed so far
    \* ---- SubcorpListModelState
    lines,              \* state.lines
    unfinished,         \* state.unfinished
    relatedCorpora,     \* state.relatedCorpora
    sortKey,            \* state.sortKey
    filter,             \* state.filter
    editWindowSubcorpus,\* state.editWindowSubcorpus
    finishedTasks,      \* state.finishedTasks
    listRequests,       \* the subcorpus/list requests without a response
    listLast,           \* the last step of SubcorpListModel: its name and the
                        \* number of error and info messages it showed
    \* ---- importEncodedOperation
    operation,          \* the Kontext.QueryOperation to import
    imported,           \* the result of importEncodedOperation, once called
    \* PublicSubcorpListModel
    pubState,           \* PublicSubcorpListState without corpora
    pubRequests,        \* the subcorpus/list_published requests without a
                        \* response, each with its arguments
    pubListening,       \* whether the dispatcher still feeds the model
    pubLast,            \* the last action: its type, whether reduce threw
                        \* and the messages shown
    \* PqueryResultModel
    pqState,            \* PqueryResultModelState
    pqSubmitted,        \* the number of SubmitQuery actions so far
    pqInFlight          \* the submissions whose actions are still to come

ttVars == <<attributes, selectionHistory, selectAll, metaInfo, minimizedBoxes,
            ttIsBusy, autoCompleteSupport, hasSelectedItems, bibLabelAttr,
            bibIdAttr, initialData, ttLast, ttListening>>

\* what TextTypesModel's actions cannot reach in SubcMixerModel
mixerOther == <<ttInitialAvailableValues, shares, currentResult, mixerIsBusy,
                isVisible, numOfErrors, mixerPending, createPending,
                mixerLast>>

mixerVars == <<ttAttributes, mixerOther>>

ratioVars == <<numItems, currIdx, ratioCurr, ratioSum>>

replayVars == <<operation, imported>>

listData == <<lines, unfinished, relatedCorpora, sortKey, filter>>

listVars == <<listData, editWindowSubcorpus, finishedTasks, listRequests,
              listLast>>

pubVars == <<pubState, pubRequests, pubListening, pubLast>>
pqVars == <<pqState, pqSubmitted, pqInFlight>>

vars == <<ttVars, mixerListening, mixerVars, ratioVars, replayVars, listVars,
          pubVars, pqVars>>

(***************************************************************************)
(* Bounds of the model                                                     *)
(***************************************************************************)
\* longest selectionHistory explored
MaxHistory == 2

(***************************************************************************)
(* Values                                                                  *)
(***************************************************************************)
\* JavaScript's undefined where a list of attributes is expected
Undefined == [defined |-> FALSE, items |-> <<>>]

\* An Immutable.List of attribute selections
ListOf(items) == [defined |-> TRUE, items |-> items]

FullAttr == "a"
TextAttr == "t"
NoAttr == "none"
AttrNames == {FullAttr, TextAttr, NoAttr}

\* The text types forms of the pages explored (InitialData.Blocks merged to
\* their lines): an attribute with a full list of values, with or without a
\* text input attribute
FormValues == <<"v1", "v2">>
NumVals == Len(FormValues)

FullLine == [name |-> FullAttr, textboxlength |-> 0, Values |-> FormValues]
TextLine == [name |-> TextAttr, textboxlength |-> 20, Values |-> <<>>]

SingleLine == [name |-> FullAttr, textboxlength |-> 0, Values |-> <<"v1">>]

FullForm == <<SingleLine, TextLine>>
SelectionForm == <<FullLine>>

(***************************************************************************)
(* Attribute selections (./valueSelections: FullAttributeSelection and     *)
(* TextInputAttributeSelection). A value keeps ident, selected and locked; *)
(* value = ident, as importInitialData builds it.                          *)
(***************************************************************************)
NewValue(ident, selected) == [ident |-> ident, selected |-> selected, locked |-> FALSE]

FullAttributeSelection(name, values) ==
    [name |-> name, full |-> TRUE, values |-> values,
     textFieldValue |-> "", autoComplete |-> <<>>]

TextInputAttributeSelection(name) ==
    [name |-> name, full |-> FALSE, values |-> <<>>,
     textFieldValue |-> "", autoComplete |-> <<>>]

containsFullList(attr) == attr.full

hasUserChanges(attr) ==
    \/ \E i \in 1..Len(attr.values) : attr.values[i].selected
    \/ (~attr.full /\ attr.textFieldValue # "")

isLocked(attr) == \E i \in 1..Len(attr.values) : attr.values[i].locked

toggleValueSelection(attr, idx) ==
    [attr EXCEPT !.values[idx].selected = ~@]

\* mapValues with a function that sets every value's selected flag
mapValuesSelected(attr, newVal) ==
    [attr EXCEPT !.values = [i \in 1..Len(attr.values) |->
                                [attr.values[i] EXCEPT !.selected = newVal]]]

\* mapValues with a function that sets every value's locked flag
mapValuesLocked(attr) ==
    [attr EXCEPT !.values = [i \in 1..Len(attr.values) |->
                                [attr.values[i] EXCEPT !.locked = TRUE]]]

setTextFieldValue(attr, value) == [attr EXCEPT !.textFieldValue = value]

setAutoCompleteOf(attr, values) == [attr EXCEPT !.autoComplete = values]

resetAutoCompleteOf(attr) == [attr EXCEPT !.autoComplete = <<>>]

RECURSIVE SelectSeqIn(_, _)
\* the items of seq whose ident is in idents, in the order of seq
SelectSeqIn(seq, idents) ==
    IF seq = <<>> THEN <<>>
    ELSE IF Head(seq).ident \in idents
         THEN <<Head(seq)>> \o SelectSeqIn(Tail(seq), idents)
         ELSE SelectSeqIn(Tail(seq), idents)

\* AttributeSelection.updateItems(items): keeps the values named by items
updateItemsOf(attr, items) ==
    IF attr.full
    THEN [attr EXCEPT !.values = SelectSeqIn(attr.values, {items[i] : i \in 1..Len(items)})]
    ELSE attr

(***************************************************************************)
(* importInitialData and the constructor of TextTypesModel                 *)
(***************************************************************************)
typeIsSelected(data, attr, v) == <<attr, v>> \in data

importInitialData(data, selectedItems) ==
    [i \in 1..Len(data) |->
        IF data[i].textboxlength > 0
        THEN TextInputAttributeSelection(data[i].name)
        ELSE FullAttributeSelection(data[i].name,
                [j \in 1..Len(data[i].Values) |->
                    NewValue(data[i].Values[j],
                             typeIsSelected(selectedItems, data[i].name,
                                            data[i].Values[j]))])]

(***************************************************************************)
(* Accessors of TextTypesModel                                             *)
(***************************************************************************)
\* List.indexOf of the attribute named ident; 0 stands for JavaScript's -1
IndexOfName(items, ident) ==
    IF \E i \in 1..Len(items) : items[i].name = ident
    THEN CHOOSE i \in 1..Len(items) :
            /\ items[i].name = ident
            /\ \A j \in 1..(i - 1) : items[j].name # ident
    ELSE 0

\* getAttribute(ident) finds an attribute (callers test the index first)
getAttribute(attrs, ident) == attrs.items[IndexOfName(attrs.items, ident)]

\* getTextInputAttribute(ident): the index of the attribute when it is an
\* instance of TextInputAttributeSelection, otherwise 0 (undefined)
getTextInputAttribute(attrs, ident) ==
    LET idx == IndexOfName(attrs.items, ident)
    IN IF idx > 0 /\ ~attrs.items[idx].full THEN idx ELSE 0

getAttributes == attributes

findHasSelectedItems(attrs) ==
    \E i \in 1..Len(attrs.items) : hasUserChanges(attrs.items[i])

canUndoState == Len(selectionHistory) > 1

getInitialAvailableValues ==
    IF Len(selectionHistory) > 0 THEN selectionHistory[1] ELSE Undefined

\* Immutable.List.set(idx, val) on the wrapped list
SetItem(attrs, idx, val) == [attrs EXCEPT !.items[idx] = val]

(***************************************************************************)
(* The range selector (./rangeSelector, RangeSelector.applyRange): the     *)
(* request fails and an error message is shown, or the values of the range *)
(* get selected. A request without bounds (NoRange) selects nothing.       *)
(***************************************************************************)
NoRange == [sel |-> {}, keep |-> TRUE]

RangeArgs == [sel : SUBSET (1..NumVals) \ {{}}, keep : BOOLEAN]

applyRangeTo(attr, args) ==
    [attr EXCEPT !.values = [i \in 1..Len(attr.values) |->
        [attr.values[i] EXCEPT !.selected = (i \in args.sel) \/ (args.keep /\ @)]]]

\* the attributes rangeSelector.applyRange can leave behind
RangeOutcomes(attrs, attrName, args) ==
    LET idx == IndexOfName(attrs.items, attrName)
    IN IF idx = 0 \/ ~attrs.items[idx].full \/ args = NoRange
       THEN {attrs}
       ELSE {attrs, SetItem(attrs, idx, applyRangeTo(attrs.items[idx], args))}

(***************************************************************************)
(* notifySelectionChange and the dispatcher. dispatch() runs the listeners *)
(* of the action; SubcMixerModel's handler of TT_SELECTION_CHANGED stores  *)
(* the attributes of the payload.                                          *)
(***************************************************************************)
SelectionChanged(attrs) ==
    [attributes |-> attrs, hasSelectedItems |-> findHasSelectedItems(attrs)]

\* SubcMixerModel, TT_SELECTION_CHANGED: state.ttAttributes after the action
onSelectionChanged(current, payload) == payload.attributes

RECURSIVE reduceAll(_, _)
reduceAll(current, payloads) ==
    IF payloads = <<>> THEN current
    ELSE reduceAll(onSelectionChanged(current, Head(payloads)), Tail(payloads))

\* onAction handled the action and dispatched the payloads. An exception
\* that leaves the handler reaches the subscriber of the action stream:
\* depending on the RxJS release it ends the subscription or is only
\* reported.
\* ranges counts the calls of applyRange.
Handled(name, threw, payloads, ranges) ==
    /\ ttListening
    /\ ttListening' \in (IF threw THEN BOOLEAN ELSE {TRUE})
    /\ ttLast' = [name |-> name, threw |-> threw, notified |-> Len(payloads),
                  applyRange |-> ranges]
    /\ ttAttributes' = IF mixerListening THEN reduceAll(ttAttributes, payloads)
                                        ELSE ttAttributes
    /\ UNCHANGED <<mixerListening, mixerOther, ratioVars, replayVars, listVars,
                   pubVars, pqVars>>

\* a handler that does not call applyRange
Dispatched(name, threw, payloads) == Handled(name, threw, payloads, 0)

(***************************************************************************)
(* TextTypesModel.onAction                                                 *)
(***************************************************************************)
ttConf == <<minimizedBoxes, autoCompleteSupport, bibLabelAttr, bibIdAttr,
            initialData>>

ttFlags == <<selectAll, metaInfo, ttIsBusy, ttConf>>

\* TT_VALUE_CHECKBOX_CLICKED: changeValueSelection, notifySelectionChange
ValueCheckboxClicked(attrName, itemIdx) ==
    /\ IF ~attributes.defined \/ IndexOfName(attributes.items, attrName) = 0
       THEN /\ Dispatched("TT_VALUE_CHECKBOX_CLICKED", TRUE, <<>>)
            /\ UNCHANGED <<attributes, hasSelectedItems>>
       ELSE LET idx == IndexOfName(attributes.items, attrName)
                attr == getAttribute(attributes, attrName)
                new == SetItem(attributes, idx, toggleValueSelection(attr, itemIdx))
            IN /\ itemIdx \in 1..Len(attr.values)
               /\ attributes' = new
               /\ hasSelectedItems' = findHasSelectedItems(new)
               /\ Dispatched("TT_VALUE_CHECKBOX_CLICKED", FALSE,
                             <<SelectionChanged(new)>>)
    /\ UNCHANGED <<selectionHistory, ttFlags>>

\* applySelectAll(ident): the attributes after it
applySelectAll(attrs, ident, newVal) ==
    LET idx == IndexOfName(attrs.items, ident)
    IN IF containsFullList(attrs.items[idx])
       THEN SetItem(attrs, idx, mapValuesSelected(attrs.items[idx], newVal))
       ELSE attrs

\* the actions the case TT_SELECT_ALL_CHECKBOX_CLICKED dispatches: the case
\* has no break, so after its own notifySelectionChange the code of
\* TT_RANGE_BUTTON_CLICKED runs (applyRange, notifySelectionChange) with
\* the payload of this action, which holds no range
selectAllNotifications(afterSelectAll, afterRange) ==
    <<SelectionChanged(afterSelectAll), SelectionChanged(afterRange)>>

\* TT_SELECT_ALL_CHECKBOX_CLICKED
SelectAllClicked(attrName) ==
    /\ IF ~attributes.defined \/ IndexOfName(attributes.items, attrName) = 0
       THEN /\ Dispatched("TT_SELECT_ALL_CHECKBOX_CLICKED", TRUE, <<>>)
            /\ UNCHANGED <<attributes, hasSelectedItems, selectAll>>
       ELSE LET full == containsFullList(getAttribute(attributes, attrName))
                newVal == ~selectAll[attrName]
                new == applySelectAll(attributes, attrName, newVal)
            IN /\ selectAll' = IF full THEN [selectAll EXCEPT ![attrName] = newVal]
                                       ELSE selectAll
               /\ hasSelectedItems' = IF full THEN findHasSelectedItems(new)
                                              ELSE hasSelectedItems
               /\ \E out \in RangeOutcomes(new, attrName, NoRange) :
                    /\ attributes' = out
                    /\ Handled("TT_SELECT_ALL_CHECKBOX_CLICKED", FALSE,
                               selectAllNotifications(new, out), 1)
    /\ UNCHANGED <<selectionHistory, metaInfo, ttIsBusy, ttConf>>

\* TT_RANGE_BUTTON_CLICKED: applyRange, notifySelectionChange
RangeButtonClicked(attrName, args) ==
    /\ IF ~attributes.defined
       THEN /\ Dispatched("TT_RANGE_BUTTON_CLICKED", TRUE, <<>>)
            /\ UNCHANGED attributes
       ELSE \E out \in RangeOutcomes(attributes, attrName, args) :
               /\ attributes' = out
               /\ Handled("TT_RANGE_BUTTON_CLICKED", FALSE,
                          <<SelectionChanged(out)>>, 1)
    /\ UNCHANGED <<selectionHistory, hasSelectedItems, ttFlags>>

TextValues == {"", "x"}
AutoCompleteData == {<<>>, <<"x">>}

\* handleAttrTextInputChange(attrName, value): the attributes after it
handleAttrTextInputChange(attrs, attrName, value) ==
    LET idx == getTextInputAttribute(attrs, attrName)
    IN IF idx > 0
       THEN SetItem(attrs, idx, setTextFieldValue(attrs.items[idx], value))
       ELSE attrs

\* resetAutoComplete(attrName): the attributes after it
resetAutoComplete(attrs, attrName) ==
    LET idx == getTextInputAttribute(attrs, attrName)
    IN IF idx > 0
       THEN SetItem(attrs, idx, resetAutoCompleteOf(attrs.items[idx]))
       ELSE attrs

\* setAutoComplete(attrName, values): the attributes after it
setAutoComplete(attrs, attrName, values) ==
    LET idx == getTextInputAttribute(attrs, attrName)
    IN IF idx > 0
       THEN SetItem(attrs, idx, setAutoCompleteOf(attrs.items[idx], values))
       ELSE attrs

\* TT_ATTRIBUTE_TEXT_INPUT_CHANGED
TextInputChanged(attrName, value) ==
    /\ IF ~attributes.defined
       THEN /\ Dispatched("TT_ATTRIBUTE_TEXT_INPUT_CHANGED", TRUE, <<>>)
            /\ UNCHANGED attributes
       ELSE /\ attributes' = handleAttrTextInputChange(attributes, attrName, value)
            /\ Dispatched("TT_ATTRIBUTE_TEXT_INPUT_CHANGED", FALSE, <<>>)
    /\ UNCHANGED <<selectionHistory, hasSelectedItems, ttFlags>>

\* TT_ATTRIBUTE_AUTO_COMPLETE_RESET
AutoCompleteReset(attrName) ==
    /\ IF ~attributes.defined
       THEN /\ Dispatched("TT_ATTRIBUTE_AUTO_COMPLETE_RESET", TRUE, <<>>)
            /\ UNCHANGED attributes
       ELSE /\ attributes' = resetAutoComplete(attributes, attrName)
            /\ Dispatched("TT_ATTRIBUTE_AUTO_COMPLETE_RESET", FALSE, <<>>)
    /\ UNCHANGED <<selectionHistory, hasSelectedItems, ttFlags>>

\* TT_ATTRIBUTE_TEXT_INPUT_AUTOCOMPLETE_REQUEST
AutoCompleteRequest ==
    /\ ttIsBusy' = TRUE
    /\ Dispatched("TT_ATTRIBUTE_TEXT_INPUT_AUTOCOMPLETE_REQUEST", FALSE, <<>>)
    /\ UNCHANGED <<attributes, selectionHistory, hasSelectedItems, selectAll,
                   metaInfo, ttConf>>

\* TT_ATTRIBUTE_TEXT_INPUT_AUTOCOMPLETE_REQUEST_DONE
AutoCompleteRequestDone(attrName, data) ==
    /\ ttIsBusy' = FALSE
    /\ IF ~attributes.defined
       THEN /\ Dispatched("TT_ATTRIBUTE_TEXT_INPUT_AUTOCOMPLETE_REQUEST_DONE",
                          TRUE, <<>>)
            /\ UNCHANGED attributes
       ELSE /\ attributes' = setAutoComplete(attributes, attrName, data)
            /\ Dispatched("TT_ATTRIBUTE_TEXT_INPUT_AUTOCOMPLETE_REQUEST_DONE",
                          FALSE, <<>>)
    /\ UNCHANGED <<selectionHistory, hasSelectedItems, selectAll, metaInfo, ttConf>>

\* TT_SET_ATTR_SUMMARY
SetAttrSummary(attrName) ==
    /\ metaInfo' = metaInfo \cup {attrName}
    /\ Dispatched("TT_SET_ATTR_SUMMARY", FALSE, <<>>)
    /\ UNCHANGED <<attributes, selectionHistory, hasSelectedItems, selectAll,
                   ttIsBusy, ttConf>>

(***************************************************************************)
(* Snapshots of the selection                                              *)
(***************************************************************************)
\* Immutable.List.pop(): the list without its last item; an empty list stays
pop(list) == IF list = <<>> THEN <<>> ELSE SubSeq(list, 1, Len(list) - 1)

\* Immutable.List.last() and first(): undefined on an empty list
last(list) == IF list = <<>> THEN Undefined ELSE list[Len(list)]
first(list) == IF list = <<>> THEN Undefined ELSE list[1]

\* selectionHistory.slice(0, 1).toList()
sliceFirst(list) == IF list = <<>> THEN <<>> ELSE <<list[1]>>

\* notifySelectionChange: building the payload throws when the attributes are
\* undefined, and then nothing is dispatched
notifySelectionChange(name, attrs) ==
    IF attrs.defined
    THEN Dispatched(name, FALSE, <<SelectionChanged(attrs)>>)
    ELSE Dispatched(name, TRUE, <<>>)

\* TT_SNAPSHOT_STATE
snapshotState(history, attrs) == Append(history, attrs)

SnapshotState ==
    /\ Len(selectionHistory) < MaxHistory
    /\ selectionHistory' = snapshotState(selectionHistory, attributes)
    /\ Dispatched("TT_SNAPSHOT_STATE", FALSE, <<>>)
    /\ UNCHANGED <<attributes, hasSelectedItems, ttFlags>>

\* a TT_UNDO_STATE that drops two snapshots
undoStateTwice(history) == pop(pop(history))

\* TT_UNDO_STATE: the history after the action
undoState(history) == pop(history)

UndoState ==
    /\ selectionHistory' = undoState(selectionHistory)
    /\ attributes' = last(selectionHistory')
    /\ notifySelectionChange("TT_UNDO_STATE", attributes')
    /\ UNCHANGED <<hasSelectedItems, ttFlags>>

\* TT_RESET_STATE: reset(), notifySelectionChange
ResetState ==
    /\ attributes' = first(selectionHistory)
    /\ selectionHistory' = sliceFirst(selectionHistory)
    /\ selectAll' = [k \in DOMAIN selectAll |-> FALSE]
    /\ metaInfo' = {}
    /\ hasSelectedItems' = FALSE
    /\ notifySelectionChange("TT_RESET_STATE", attributes')
    /\ UNCHANGED <<ttIsBusy, ttConf>>

(***************************************************************************)
(* Locking and filtering                                                   *)
(***************************************************************************)
\* getAttributesWithSelectedItems(false) followed by mapItems(locked: true)
lockSelected(attrs) ==
    [attrs EXCEPT !.items = [i \in 1..Len(attrs.items) |->
        IF hasUserChanges(attrs.items[i]) /\ ~isLocked(attrs.items[i])
        THEN mapValuesLocked(attrs.items[i])
        ELSE attrs.items[i]]]

\* TT_LOCK_SELECTED
LockSelected ==
    /\ IF ~attributes.defined
       THEN /\ Dispatched("TT_LOCK_SELECTED", TRUE, <<>>)
            /\ UNCHANGED attributes
       ELSE /\ attributes' = lockSelected(attributes)
            /\ Dispatched("TT_LOCK_SELECTED", FALSE, <<>>)
    /\ UNCHANGED <<selectionHistory, hasSelectedItems, ttFlags>>

RECURSIVE SubSeqIn(_, _)
\* the items of seq that are in S, in the order of seq
SubSeqIn(seq, S) ==
    IF seq = <<>> THEN <<>>
    ELSE IF Head(seq) \in S THEN <<Head(seq)>> \o SubSeqIn(Tail(seq), S)
         ELSE SubSeqIn(Tail(seq), S)

\* the filter data of one attribute: the idents of some of the values of
\* the form, in the order of the form
FilterData ==
    {SubSeqIn(FormValues, S) : S \in SUBSET {FormValues[i] : i \in 1..NumVals}}

\* filterWholeSelection for one key k of the filter data: updateItems, then
\* mapItems by position, then filter(item !== null)
filterAttr(attr, data) ==
    LET kept == updateItemsOf(attr, data).values
        n == IF Len(kept) < Len(data) THEN Len(kept) ELSE Len(data)
    IN [attr EXCEPT !.values = [i \in 1..n |->
            [ident |-> data[i], selected |-> kept[i].selected,
             locked |-> kept[i].locked]]]

filterWholeSelection(attrs, k, data) ==
    LET idx == IndexOfName(attrs.items, k)
    IN IF idx > 0 THEN SetItem(attrs, idx, filterAttr(attrs.items[idx], data))
       ELSE attrs

\* TT_FILTER_WHOLE_SELECTION with filter data {k: data}
FilterWholeSelection(k, data) ==
    /\ IF ~attributes.defined
       THEN /\ Dispatched("TT_FILTER_WHOLE_SELECTION", TRUE, <<>>)
            /\ UNCHANGED attributes
       ELSE /\ attributes' = filterWholeSelection(attributes, k, data)
            /\ Dispatched("TT_FILTER_WHOLE_SELECTION", FALSE, <<>>)
    /\ UNCHANGED <<selectionHistory, hasSelectedItems, ttFlags>>

(***************************************************************************)
(* The text types form                                                     *)
(***************************************************************************)
ConstructorAttributes == ListOf(importInitialData(initialData, {}))

\* the state the constructor builds from the form data
InitTT(data) ==
    /\ initialData = data
    /\ attributes = ConstructorAttributes
    /\ selectionHistory = <<ConstructorAttributes>>
    /\ selectAll = [k \in {data[i].name : i \in 1..Len(data)} |-> FALSE]
    /\ metaInfo = {}
    /\ minimizedBoxes = [k \in {data[i].name : i \in 1..Len(data)} |-> FALSE]
    /\ ttIsBusy = FALSE
    /\ autoCompleteSupport = FALSE
    /\ hasSelectedItems = FALSE
    /\ bibLabelAttr = TextAttr
    /\ bibIdAttr = "id"
    /\ ttLast = [name |-> "", threw |-> FALSE, notified |-> 0, applyRange |-> 0]
    /\ ttListening = TRUE

NextTT ==
    \/ \E an \in AttrNames, i \in 1..NumVals : ValueCheckboxClicked(an, i)
    \/ \E an \in AttrNames : SelectAllClicked(an)
    \/ \E an \in AttrNames, args \in RangeArgs : RangeButtonClicked(an, args)
    \/ \E an \in AttrNames, v \in TextValues : TextInputChanged(an, v)
    \/ \E an \in AttrNames : AutoCompleteReset(an)
    \/ AutoCompleteRequest
    \/ \E an \in AttrNames, d \in AutoCompleteData : AutoCompleteRequestDone(an, d)
    \/ SetAttrSummary(FullAttr)
    \/ SnapshotState
    \/ UndoState
    \/ ResetState
    \/ LockSelected
    \/ \E k \in AttrNames, d \in FilterData : FilterWholeSelection(k, d)

(***************************************************************************)
(* SubcMixerModel.safeCalcInitialRatio, in tenths of a percent             *)
(***************************************************************************)
\* largest group explored
MaxItems == 64

\* 100 percent, in tenths
Hundred == 1000

\* Math.round(100 / numItems * 10): the nearest integer, halves upwards
roundedShare(n) == (2 * Hundred + n) \div (2 * n)

\* safeCalcInitialRatio without the special case of the last index
safeCalcNoRemainder(n, idx) == roundedShare(n)

safeCalcInitialRatio(n, idx) ==
    LET r == roundedShare(n)
    IN IF idx < n - 1 THEN r ELSE Hundred - (n - 1) * r

InitRatio ==
    /\ numItems \in 1..MaxItems
    /\ currIdx = 0
    /\ ratioCurr = 0
    /\ ratioSum = 0

InitRatioIdle ==
    /\ numItems = 1
    /\ currIdx = 0
    /\ ratioCurr = 0
    /\ ratioSum = 0

\* one call of safeCalcInitialRatio(numItems, currIdx), for the indices
\* 0..numItems-1 in turn
CalcInitialRatio ==
    /\ currIdx < numItems
    /\ ratioCurr' = safeCalcInitialRatio(numItems, currIdx)
    /\ ratioSum' = ratioSum + ratioCurr'
    /\ currIdx' = currIdx + 1
    /\ UNCHANGED <<numItems, ttVars, mixerListening, mixerVars, replayVars,
                   listVars, pubVars, pqVars>>

(***************************************************************************)
(* models/query/replay/common.ts                                           *)
(***************************************************************************)
\* an optional string: <<s>>, or <<>> for undefined
Some(s) == <<s>>
None == <<>>

\* the values of Kontext.ConcFormTypes
ConcFormTypes ==
    [QUERY |-> "QUERY", FILTER |-> "FILTER", SORT |-> "SORT",
     SAMPLE |-> "SAMPLE", SHUFFLE |-> "SHUFFLE", SWITCHMC |-> "SWITCHMC",
     SUBHITS |-> "SUBHITS", FIRSTHITS |-> "FIRSTHITS"]

\* Kontext.ManateeOpCode, and a code the client does not know
OpCodes == {"q", "a", "n", "N", "p", "P", "s", "r", "f", "x", "D", "F"}
UnknownOpCode == "z"

\* a mapOpIdToFormType that knows the query and filter forms only
mapOpIdQueryFilter(opId) ==
    IF opId \in {"q", "a"} THEN Some(ConcFormTypes.QUERY)
    ELSE IF opId \in {"n", "N", "p", "P"} THEN Some(ConcFormTypes.FILTER)
    ELSE None

mapOpIdToFormType(opId) ==
    IF opId \in {"q", "a"} THEN Some(ConcFormTypes.QUERY)
    ELSE IF opId \in {"n", "N", "p", "P"} THEN Some(ConcFormTypes.FILTER)
    ELSE IF opId = "s" THEN Some(ConcFormTypes.SORT)
    ELSE IF opId = "r" THEN Some(ConcFormTypes.SAMPLE)
    ELSE IF opId = "f" THEN Some(ConcFormTypes.SHUFFLE)
    ELSE IF opId = "x" THEN Some(ConcFormTypes.SWITCHMC)
    ELSE IF opId = "D" THEN Some(ConcFormTypes.SUBHITS)
    ELSE IF opId = "F" THEN Some(ConcFormTypes.FIRSTHITS)
    ELSE None

importEncodedOperation(o) ==
    [op |-> o.op, opid |-> o.opid, nicearg |-> o.nicearg, tourl |-> o.tourl,
     arg |-> o.arg, size |-> o.size,
     formType |-> mapOpIdToFormType(o.opid),
     concPersistenceId |-> None]

\* the operations of a query overview
QueryOperations ==
    [op : {"Query", "Filter"}, opid : OpCodes \cup {UnknownOpCode},
     nicearg : {"", "[word=\"x\"]"}, tourl : {"q=x"}, arg : {"x"},
     size : {0, 7}]

\* nothing imported yet
NotImported == <<>>

InitReplay ==
    /\ operation \in QueryOperations
    /\ imported = NotImported

InitReplayIdle ==
    /\ operation = CHOOSE o \in QueryOperations : o.opid = "q"
    /\ imported = NotImported

ImportOperation ==
    /\ imported = NotImported
    /\ imported' = <<importEncodedOperation(operation)>>
    /\ UNCHANGED <<operation, ttVars, mixerListening, mixerVars, ratioVars,
                   listVars, pubVars, pqVars>>

(***************************************************************************)
(* SubcMixerModel                                                          *)
(***************************************************************************)
\* currentResult: null
NoResult == <<>>

\* most subcmixer_run_calc requests in flight
MaxPending == 1

\* the text types form of a corpus with two structural attributes
OtherAttr == "b"
MixerAttrNames == {FullAttr, OtherAttr}
MixerForm ==
    <<[name |-> FullAttr, textboxlength |-> 0, Values |-> <<"v1">>],
      [name |-> OtherAttr, textboxlength |-> 0, Values |-> <<"v1", "v2", "v3">>]>>
MaxFormValues == Len(MixerForm[2].Values)

\* the text of a ratio: the number parseFloat() reads from it (in tenths of
\* a percent; isNumber is false for NaN) and whether validateRatio's
\* pattern matches it
RatioText(tenths, isNumber, wellFormed) ==
    [tenths |-> tenths, isNumber |-> isNumber, wellFormed |-> wellFormed]

\* Number.toFixed(1)
toFixed1(tenths) == RatioText(tenths, TRUE, tenths >= 0)

\* what the user types into a ratio field: "50" and "x"
RatioInputs == {RatioText(500, TRUE, TRUE), RatioText(0, FALSE, FALSE)}

\* Kontext.newFormValue(v, isRequired)
newFormValue(v, isRequired) ==
    [value |-> v, isInvalid |-> FALSE, isRequired |-> isRequired]

\* the inner getInitialAvailableValues(attrName) of getAvailableValues
initialValuesOf(ttInit, attrName) ==
    LET idx == IndexOfName(ttInit.items, attrName)
    IN IF idx > 0 THEN ttInit.items[idx].values ELSE <<>>

\* the flatMap callback of getAvailableValues for one attribute
availableValuesOf(item, ttInit) ==
    LET tmp == {item.values[j].ident : j \in
                    {k \in 1..Len(item.values) : item.values[k].selected}}
        init == initialValuesOf(ttInit, item.name)
    IN [j \in 1..Len(init) |->
            [attrName |-> item.name, attrValue |-> init[j].ident,
             isSelected |-> init[j].ident \in tmp]]

RECURSIVE flatMapAvailable(_, _)
flatMapAvailable(items, ttInit) ==
    IF items = <<>> THEN <<>>
    ELSE (IF hasUserChanges(Head(items))
          THEN availableValuesOf(Head(items), ttInit) ELSE <<>>)
         \o flatMapAvailable(Tail(items), ttInit)

getAvailableValues(ttAttrs, ttInit) == flatMapAvailable(ttAttrs.items, ttInit)

RECURSIVE filterSelected(_)
filterSelected(avail) ==
    IF avail = <<>> THEN <<>>
    ELSE (IF Head(avail).isSelected THEN <<Head(avail)>> ELSE <<>>)
         \o filterSelected(Tail(avail))

\* numValsPerGroup[attrName] of refreshData
numValsPerGroup(sel, attrName) ==
    Cardinality({i \in 1..Len(sel) : sel[i].attrName = attrName})

\* refreshData: state.shares after it. The index i handed to
\* safeCalcInitialRatio is the position in the filtered list of all
\* attributes (0-based). baseRatio is for display and left out (availItems
\* is not part of the attribute values here).
refreshData(ttAttrs, ttInit) ==
    LET sel == filterSelected(getAvailableValues(ttAttrs, ttInit))
    IN [i \in 1..Len(sel) |->
          [attrName |-> sel[i].attrName, attrValue |-> sel[i].attrValue,
           isSelected |-> sel[i].isSelected,
           ratio |-> newFormValue(
                IF sel[i].isSelected
                THEN toFixed1(safeCalcInitialRatio(
                        numValsPerGroup(sel, sel[i].attrName), i - 1))
                ELSE toFixed1(0), TRUE),
           zeroFixed |-> ~sel[i].isSelected]]

RECURSIVE sumRatios(_, _)
\* sums[k] of submitTask, in tenths (meaningful when all texts are numbers)
sumRatios(shs, k) ==
    IF shs = <<>> THEN 0
    ELSE (IF Head(shs).attrName = k THEN Head(shs).ratio.value.tenths ELSE 0)
         + sumRatios(Tail(shs), k)

\* a sum of submitTask is NaN
sumIsNaN(shs, k) ==
    \E i \in 1..Len(shs) : shs[i].attrName = k /\ ~shs[i].ratio.value.isNumber

\* submitTask returns rxThrowError: some sums[k] !== 100
submitTaskRejects(shs) ==
    \E k \in {shs[i].attrName : i \in 1..Len(shs)} :
        sumIsNaN(shs, k) \/ sumRatios(shs, k) # Hundred

\* validateRatio(ratio) returns an error
validateRatioFails(ratio) == ~ratio.wellFormed

\* the index updateRatio and getRatio look for, 0 when there is none
shareIndex(shs, attrName, attrValue) ==
    IF \E i \in 1..Len(shs) : /\ shs[i].attrName = attrName
                              /\ shs[i].attrValue = attrValue
                              /\ ~shs[i].zeroFixed
    THEN CHOOSE i \in 1..Len(shs) :
            /\ shs[i].attrName = attrName /\ shs[i].attrValue = attrValue
            /\ ~shs[i].zeroFixed
            /\ \A j \in 1..(i - 1) : ~(/\ shs[j].attrName = attrName
                                       /\ shs[j].attrValue = attrValue
                                       /\ ~shs[j].zeroFixed)
    ELSE 0

updateRatio(shs, attrName, attrValue, ratio) ==
    LET idx == shareIndex(shs, attrName, attrValue)
    IN IF idx > 0 THEN [shs EXCEPT ![idx].ratio = ratio] ELSE shs

\* the handler of SetRatioValidate
setRatioValidate(shs, attrName, attrValue, isInvalid) ==
    LET idx == shareIndex(shs, attrName, attrValue)
    IN IF idx > 0
       THEN updateRatio(shs, attrName, attrValue,
                        [shs[idx].ratio EXCEPT !.isInvalid = isInvalid])
       ELSE shs

mixerConf == <<mixerListening, ttAttributes, ttInitialAvailableValues>>

\* the end of a handler of SubcMixerModel
MixerHandled(name, rejected, messages) ==
    /\ mixerLast' = [name |-> name, rejected |-> rejected, messages |-> messages]
    /\ UNCHANGED <<ttVars, mixerConf, ratioVars, replayVars, listVars,
                   pubVars, pqVars>>

ShowWidget ==
    /\ isVisible' = TRUE
    /\ shares' = refreshData(ttAttributes, ttInitialAvailableValues)
    /\ MixerHandled("ShowWidget", FALSE, 0)
    /\ UNCHANGED <<currentResult, mixerIsBusy, numOfErrors, mixerPending,
                   createPending>>

HideWidget ==
    /\ isVisible' = FALSE
    /\ currentResult' = NoResult
    /\ MixerHandled("HideWidget", FALSE, 0)
    /\ UNCHANGED <<shares, mixerIsBusy, numOfErrors, mixerPending,
                   createPending>>

\* SetRatio; when validateRatio fails its side effect shows a message and
\* dispatches SetRatioValidate
SetRatio(attrName, attrValue, ratio) ==
    /\ LET updated == updateRatio(shares, attrName, attrValue,
                                  newFormValue(ratio, TRUE))
       IN IF validateRatioFails(ratio)
          THEN /\ shares' = setRatioValidate(updated, attrName, attrValue, TRUE)
               /\ MixerHandled("SetRatio", FALSE, 1)
          ELSE /\ shares' = updated
               /\ MixerHandled("SetRatio", FALSE, 0)
    /\ UNCHANGED <<currentResult, mixerIsBusy, isVisible, numOfErrors,
                   mixerPending, createPending>>

\* SubmitTask: the reducer, then submitTask(state); a rejected task shows
\* the error and dispatches SubmitTaskDone with it
SubmitTask ==
    /\ numOfErrors' = 0
    /\ IF submitTaskRejects(shares)
       THEN /\ mixerIsBusy' = FALSE
            /\ MixerHandled("SubmitTask", TRUE, 1)
            /\ UNCHANGED mixerPending
       ELSE /\ mixerPending < MaxPending
            /\ mixerIsBusy' = TRUE
            /\ mixerPending' = mixerPending + 1
            /\ MixerHandled("SubmitTask", FALSE, 0)
    /\ UNCHANGED <<shares, currentResult, isVisible, createPending>>

\* CalculationResults.attrs: for each row whether it is within ratioLimit
CalculationResults == {<<TRUE>>, <<TRUE, FALSE>>}

\* List.foldl((prev, curr) => prev + (!curr[2] ? 1 : 0), 0, attrs)
countErrors(attrs) == Cardinality({i \in 1..Len(attrs) : ~attrs[i]})

\* the response of subcmixer_run_calc with attrs and ids: SubmitTaskDone
\* with the result
SubmitTaskDone(result) ==
    /\ mixerPending > 0
    /\ mixerPending' = mixerPending - 1
    /\ mixerIsBusy' = FALSE
    /\ currentResult' = <<result>>
    /\ numOfErrors' = countErrors(result)
    /\ MixerHandled("SubmitTaskDone", FALSE, 0)
    /\ UNCHANGED <<shares, isVisible, createPending>>

\* a failed request (one message), or a response without attrs or ids (its
\* message and the error): SubmitTaskDone with an error
SubmitTaskError(messages) ==
    /\ mixerPending > 0
    /\ mixerPending' = mixerPending - 1
    /\ mixerIsBusy' = FALSE
    /\ MixerHandled("SubmitTaskDone", FALSE, messages)
    /\ UNCHANGED <<shares, currentResult, isVisible, numOfErrors,
                   createPending>>

\* submitCreateSubcorpus(state): the error of validateSubcProps (which is
\* not part of these sources: its verdict is an input), a TypeError when
\* currentResult is null, otherwise the POST request
submitCreateSubcorpus(valid, result) ==
    IF ~valid THEN "error"
    ELSE IF result = NoResult THEN "TypeError"
    ELSE "request"

\* CreateSubcorpusDone: the handler has no reducer (null); its side effect
\* assigns state.isBusy = false to the state object it is handed.  Whether
\* that assignment reaches the state of the model is decided by the
\* StatelessModel base class (a frozen state keeps isBusy, a state object
\* shared with the model loses it): both values are possible.
createSubcorpusDone(busy) == {busy, FALSE}

\* SubmitCreateSubcorpus: the reducer, then submitCreateSubcorpus(state);
\* a validation error is thrown at once, so its message and
\* CreateSubcorpusDone belong to the same step
SubmitCreateSubcorpus(valid) ==
    /\ LET outcome == submitCreateSubcorpus(valid, currentResult)
       IN CASE outcome = "error" ->
                 /\ mixerIsBusy' \in createSubcorpusDone(TRUE)
                 /\ MixerHandled("SubmitCreateSubcorpus", TRUE, 1)
                 /\ UNCHANGED createPending
            [] outcome = "TypeError" ->
                 /\ mixerIsBusy' = TRUE
                 /\ MixerHandled("SubmitCreateSubcorpus", TRUE, 0)
                 /\ UNCHANGED createPending
            [] outcome = "request" ->
                 /\ createPending < MaxPending
                 /\ createPending' = createPending + 1
                 /\ mixerIsBusy' = TRUE
                 /\ MixerHandled("SubmitCreateSubcorpus", FALSE, 0)
    /\ UNCHANGED <<shares, currentResult, isVisible, numOfErrors,
                   mixerPending>>

\* the response of subcmixer_create_subcorpus: the page is left (ok), or
\* the error is shown; CreateSubcorpusDone is dispatched in both cases
CreateSubcorpusResponse(ok) ==
    /\ createPending > 0
    /\ createPending' = createPending - 1
    /\ mixerIsBusy' \in createSubcorpusDone(mixerIsBusy)
    /\ MixerHandled("CreateSubcorpusDone", ~ok, IF ok THEN 0 ELSE 1)
    /\ UNCHANGED <<shares, currentResult, isVisible, numOfErrors,
                   mixerPending>>

NextMixer ==
    \/ \E an \in MixerAttrNames, i \in 1..MaxFormValues :
          ValueCheckboxClicked(an, i)
    \/ ShowWidget
    \/ HideWidget
    \/ \E an \in MixerAttrNames, r \in RatioInputs : SetRatio(an, "v1", r)
    \/ SubmitTask
    \/ \E result \in CalculationResults : SubmitTaskDone(result)
    \/ \E messages \in {1, 2} : SubmitTaskError(messages)
    \/ \E valid \in BOOLEAN : SubmitCreateSubcorpus(valid)
    \/ \E ok \in BOOLEAN : CreateSubcorpusResponse(ok)

\* the subcorpus mixer starts with copies of the attributes of the form
InitMixerIdle ==
    /\ ttAttributes = ConstructorAttributes
    /\ ttInitialAvailableValues = ConstructorAttributes
    /\ shares = <<>>
    /\ currentResult = NoResult
    /\ mixerIsBusy = FALSE
    /\ isVisible = FALSE
    /\ numOfErrors = 0
    /\ mixerPending = 0
    /\ createPending = 0
    /\ mixerLast = [name |-> "", rejected |-> FALSE, messages |-> 0]

(***************************************************************************)
(* SubcorpListModel. isBusy, usesSubcRestore and page are never written    *)
(* after the constructor and are left out.                                 *)
(***************************************************************************)
\* most subcorpus/list requests in flight
MaxRequests == 2

\* the sort keys and filters of the page
SortKeys == {[name |-> "name", reverse |-> FALSE], [name |-> "size", reverse |-> TRUE]}
Filters == {[show_archived |-> FALSE, corpname |-> ""],
            [show_archived |-> TRUE, corpname |-> ""]}

InitialSortKey == [name |-> "name", reverse |-> FALSE]
InitialFilter == [show_archived |-> FALSE, corpname |-> ""]

\* Kontext.AsyncTaskInfo of a subcorpus task
TaskIdent == "t1"
AsyncTask(status) == [ident |-> TaskIdent, label |-> "sub1", status |-> status,
                      category |-> "subcorpus"]
TaskStatuses == {"PENDING", "SUCCESS", "FAILURE"}

importProcessed(data) ==
    LET keep == SelectSeq(data, LAMBDA v : v.status # "SUCCESS")
    IN [i \in 1..Len(keep) |->
            [ident |-> keep[i].ident, name |-> keep[i].label,
             failed |-> keep[i].status = "FAILURE"]]

\* mergeFilter: the arguments of a request with the sort and the filter
requestArgs(sort, flt) ==
    [sort |-> (IF sort.reverse THEN "-" ELSE "") \o sort.name,
     show_archived |-> IF flt.show_archived THEN "1" ELSE "0",
     corpname |-> flt.corpname]

\* importServerSubcList(data.subcorp_list) of the server's response to a
\* request with the given arguments: the list for that sort and filter
importServerSubcList(args) == <<args>>

\* the response of the server to a request: its list for the arguments, the
\* tasks it is processing, and the sort key it was asked for
ServerResponse(req, processed) ==
    [subcorp_list |-> req.args, processed_subc |-> processed,
     related_corpora |-> <<"c1">>, sort_key |-> req.sort]

ProcessedLists == {<<>>, <<AsyncTask("PENDING")>>}

\* sortItems(name, reverse): the request it sends
sortItems(name, reverse) ==
    LET sort == [name |-> name, reverse |-> reverse]
    IN [kind |-> "sort", sort |-> sort, filter |-> filter,
        args |-> requestArgs(sort, filter)]

\* filterItems(filter): the request it sends
filterItems(flt) ==
    [kind |-> "filter", sort |-> sortKey, filter |-> flt,
     args |-> requestArgs(sortKey, flt)]

reloadItems == filterItems(filter)

\* the list without its item at idx
RemoveAt(seq, idx) ==
    [i \in 1..(Len(seq) - 1) |-> IF i < idx THEN seq[i] ELSE seq[i + 1]]

\* an error callback that sends the request again
onListErrorRetry(requests, idx) == Append(RemoveAt(requests, idx), requests[idx])

\* the error callbacks of subscribe: emitChange and showMessage; the
\* requests in flight after them
onListError(requests, idx) == RemoveAt(requests, idx)

ListHandled(name, errors, infos) ==
    /\ listLast' = [name |-> name, errors |-> errors, infos |-> infos]
    /\ UNCHANGED <<ttVars, mixerListening, mixerVars, ratioVars, replayVars,
                   pubVars, pqVars>>

\* Actions.SortLines
SortLines(colName, reverse) ==
    /\ Len(listRequests) < MaxRequests
    /\ listRequests' = Append(listRequests, sortItems(colName, reverse))
    /\ ListHandled("SortLines", 0, 0)
    /\ UNCHANGED <<listData, editWindowSubcorpus, finishedTasks>>

\* Actions.UpdateFilter
UpdateFilter(payload) ==
    /\ Len(listRequests) < MaxRequests
    /\ listRequests' = Append(listRequests, filterItems(payload))
    /\ ListHandled("UpdateFilter", 0, 0)
    /\ UNCHANGED <<listData, editWindowSubcorpus, finishedTasks>>

\* Actions.WipeSubcorpusDone, RestoreSubcorpusDone, ReuseQueryDone and
\* ArchiveSubcorpusDone
SubcorpusActionDone(name) ==
    /\ Len(listRequests) < MaxRequests
    /\ listRequests' = Append(listRequests, reloadItems)
    /\ ListHandled(name, 0, 0)
    /\ UNCHANGED <<listData, editWindowSubcorpus, finishedTasks>>

DoneActions == {"WipeSubcorpusDone", "RestoreSubcorpusDone", "ReuseQueryDone",
                "ArchiveSubcorpusDone"}

\* Actions.ShowSubcEditWindow
ShowSubcEditWindow ==
    /\ editWindowSubcorpus' = <<[corpusName |-> "c1", subcorpusId |-> "s1",
                                 subcorpusName |-> "sub1"]>>
    /\ ListHandled("ShowSubcEditWindow", 0, 0)
    /\ UNCHANGED <<listData, finishedTasks, listRequests>>

\* Actions.HideSubcEditWindow
HideSubcEditWindow ==
    /\ editWindowSubcorpus' = <<>>
    /\ ListHandled("HideSubcEditWindow", 0, 0)
    /\ UNCHANGED <<listData, finishedTasks, listRequests>>

\* the callback of addOnAsyncTaskUpdate for a list with one subcorpus task
AsyncTaskUpdate(status) ==
    /\ Len(listRequests) < MaxRequests
    /\ finishedTasks' = finishedTasks \cup {TaskIdent}
    /\ listRequests' = Append(listRequests, reloadItems)
    /\ IF TaskIdent \in finishedTasks THEN ListHandled("AsyncTaskUpdate", 0, 0)
       ELSE IF status = "FAILURE" THEN ListHandled("AsyncTaskUpdate", 1, 0)
       ELSE ListHandled("AsyncTaskUpdate", 0, 1)
    /\ UNCHANGED <<listData, editWindowSubcorpus>>

\* a response arrives: tap() of sortItems or of filterItems, then emitChange
ListResponse(idx, processed) ==
    /\ idx \in 1..Len(listRequests)
    /\ LET req == listRequests[idx]
           data == ServerResponse(req, processed)
       IN /\ lines' = importServerSubcList(data.subcorp_list)
          /\ unfinished' = importProcessed(data.processed_subc)
          /\ relatedCorpora' = data.related_corpora
          /\ IF req.kind = "sort"
             THEN /\ sortKey' = [name |-> data.sort_key.name,
                                 reverse |-> data.sort_key.reverse]
                  /\ UNCHANGED filter
             ELSE /\ filter' = [p \in DOMAIN filter |->
                                  IF p \in DOMAIN req.filter THEN req.filter[p]
                                                             ELSE filter[p]]
                  /\ UNCHANGED sortKey
    /\ listRequests' = RemoveAt(listRequests, idx)
    /\ ListHandled("ListResponse", 0, 0)
    /\ UNCHANGED <<editWindowSubcorpus, finishedTasks>>

\* a request fails: emitChange, showMessage('error')
ListRequestFailed(idx) ==
    /\ idx \in 1..Len(listRequests)
    /\ listRequests' = onListError(listRequests, idx)
    /\ ListHandled("ListRequestFailed", 1, 0)
    /\ UNCHANGED <<listData, editWindowSubcorpus, finishedTasks>>

\* the constructor: lines of the page's data, no unfinished subcorpus
InitList ==
    /\ lines = importServerSubcList(requestArgs(InitialSortKey, InitialFilter))
    /\ unfinished = importProcessed(<<>>)
    /\ relatedCorpora = <<"c1">>
    /\ sortKey = InitialSortKey
    /\ filter = InitialFilter
    /\ editWindowSubcorpus = <<>>
    /\ finishedTasks = {}
    /\ listRequests = <<>>
    /\ listLast = [name |-> "", errors |-> 0, infos |-> 0]

NextList ==
    \/ \E k \in SortKeys : SortLines(k.name, k.reverse)
    \/ \E f \in Filters : UpdateFilter(f)
    \/ \E name \in DoneActions : SubcorpusActionDone(name)
    \/ ShowSubcEditWindow
    \/ HideSubcEditWindow
    \/ \E status \in TaskStatuses : AsyncTaskUpdate(status)
    \/ \E idx \in 1..MaxRequests, p \in ProcessedLists : ListResponse(idx, p)
    \/ \E idx \in 1..MaxRequests : ListRequestFailed(idx)

(***************************************************************************)
(* PublicSubcorpListModel. corpora is never written after the constructor  *)
(* and is left out.                                                        *)
(***************************************************************************)
\* the values of the corpus selector and of the code prefix input
PubCorpnames == {"c1", "c2"}
PubCodePrefixes == {"p"}

\* loadData(state): the arguments of subcorpus/list_published
loadData(state) == [corpname |-> state.corpname, code_prefix |-> state.codePrefix]

\* LoadDataResponse.data: the server's list for the arguments of a request
listPublished(args) == <<args>>

\* reduce(state, action); props of the failed load is {}, and
\* action.props['data']['data'] of it throws a TypeError
reduce(state, action) ==
    CASE action.actionType = "PUBSUBC_SET_CORPUS_NAME" ->
            [state EXCEPT !.isBusy = TRUE, !.corpname = action.props.value]
      [] action.actionType = "PUBSUBC_SET_CODE_PREFIX" ->
            [state EXCEPT !.isBusy = TRUE, !.codePrefix = action.props.value]
      [] action.actionType = "PUBSUBC_DATA_LOAD_DONE" ->
            IF "data" \in DOMAIN action.props
            THEN [state EXCEPT !.isBusy = FALSE, !.data = action.props.data.data]
            ELSE [thrown |-> "TypeError"]
      [] OTHER -> state

\* sideEffects(state, action, dispatch): the requests in flight after it
sideEffects(state, action, requests) ==
    IF action.actionType = "PUBSUBC_SET_CORPUS_NAME"
    THEN Append(requests, loadData(state))
    ELSE requests

\* the dispatcher hands an action to reduce and then, with the new state, to
\* sideEffects; an exception of reduce leaves the state as it is and may end
\* the subscription of the model
PubDispatched(action, requests, messages) ==
    /\ LET new == IF pubListening THEN reduce(pubState, action) ELSE pubState
       IN IF new = [thrown |-> "TypeError"]
          THEN /\ pubListening' \in BOOLEAN
               /\ pubRequests' = requests
               /\ pubLast' = [name |-> action.actionType, threw |-> TRUE,
                              messages |-> messages]
               /\ UNCHANGED pubState
          ELSE /\ pubState' = new
               /\ pubRequests' = IF pubListening
                                 THEN sideEffects(new, action, requests)
                                 ELSE requests
               /\ pubLast' = [name |-> action.actionType, threw |-> FALSE,
                              messages |-> messages]
               /\ UNCHANGED pubListening
    /\ UNCHANGED <<ttVars, mixerListening, mixerVars, ratioVars, replayVars,
                   listVars, pqVars>>

SetCorpusName(value) ==
    /\ pubListening
    /\ Len(pubRequests) < MaxRequests
    /\ PubDispatched([actionType |-> "PUBSUBC_SET_CORPUS_NAME",
                      props |-> [value |-> value]], pubRequests, 0)

SetCodePrefix(value) ==
    /\ pubListening
    /\ PubDispatched([actionType |-> "PUBSUBC_SET_CODE_PREFIX",
                      props |-> [value |-> value]], pubRequests, 0)

\* RESET_FILTER has no case in reduce or in sideEffects
ResetFilter ==
    /\ pubListening
    /\ PubDispatched([actionType |-> "PUBSUBC_RESET_FILTER", props |-> <<>>],
                     pubRequests, 0)

\* a request is answered: then() dispatches DATA_LOAD_DONE with the data
DataLoaded(idx) ==
    /\ idx \in 1..Len(pubRequests)
    /\ PubDispatched([actionType |-> "PUBSUBC_DATA_LOAD_DONE",
                      props |-> [data |-> [data |-> listPublished(pubRequests[idx])]]],
                     RemoveAt(pubRequests, idx), 0)

\* a request fails: catch() shows the error and dispatches DATA_LOAD_DONE
\* with props {} and the error
DataLoadFailed(idx) ==
    /\ idx \in 1..Len(pubRequests)
    /\ PubDispatched([actionType |-> "PUBSUBC_DATA_LOAD_DONE", props |-> <<>>,
                      error |-> TRUE],
                     RemoveAt(pubRequests, idx), 1)

\* the constructor; data is the list of the page without a filter
InitPub ==
    /\ pubState = [isBusy |-> FALSE,
                   data |-> listPublished([corpname |-> "", code_prefix |-> ""]),
                   corpname |-> "", codePrefix |-> ""]
    /\ pubRequests = <<>>
    /\ pubListening = TRUE
    /\ pubLast = [name |-> "", threw |-> FALSE, messages |-> 0]

\* the server answers a request, with the list or with an error
PubResponse == \E idx \in 1..MaxRequests : DataLoaded(idx) \/ DataLoadFailed(idx)

NextPub ==
    \/ \E value \in PubCorpnames : SetCorpusName(value)
    \/ \E value \in PubCodePrefixes \cup {""} : SetCodePrefix(value)
    \/ ResetFilter
    \/ \E idx \in 1..MaxRequests : DataLoaded(idx)
    \/ \E idx \in 1..MaxRequests : DataLoadFailed(idx)

(***************************************************************************)
(* PqueryResultModel (models/pquery/result.ts). The actions are dispatched *)
(* by the query form and its task watcher, which are not part of these     *)
(* sources: every SubmitQuery is answered by a SubmitQueryDone and then by *)
(* an AsyncResultRecieved with the result of that query.                   *)
(***************************************************************************)
\* most SubmitQuery actions of a behaviour
MaxSubmits == 3

\* the values of the result lines, in alphabetical order
PqueryValues == <<"a", "b">>

\* PqueryResult of the query submitted as number q: lines [value, freq]
PqueryResultOf(q) == <<<<"b", q>>, <<"a", q + MaxSubmits>>>>

PquerySortKeys == [column : {"freq", "value"}, reverse : BOOLEAN]

\* sortData(state): List.sortAlphaBy by v[0] or List.sortBy by v[1] (both
\* stable), then List.reverse
sortData(state) ==
    LET data == state.data
        n == Len(data)
        alpha(v) == CHOOSE i \in 1..Len(PqueryValues) : PqueryValues[i] = v[1]
        key(v) == IF state.sortKey.column = "value" THEN alpha(v) ELSE v[2]
        pos(i) == 1 + Cardinality({j \in 1..n :
                        \/ key(data[j]) < key(data[i])
                        \/ key(data[j]) = key(data[i]) /\ j < i})
        sorted == [k \in 1..n |-> data[CHOOSE i \in 1..n : pos(i) = k]]
    IN [state EXCEPT !.data = IF state.sortKey.reverse
                              THEN [i \in 1..n |-> sorted[n + 1 - i]]
                              ELSE sorted]

\* the end of a handler of PqueryResultModel
PqueryHandled ==
    UNCHANGED <<ttVars, mixerListening, mixerVars, ratioVars, replayVars,
                listVars, pubVars>>

PquerySubmitQuery ==
    /\ pqSubmitted < MaxSubmits
    /\ pqSubmitted' = pqSubmitted + 1
    /\ pqState' = [pqState EXCEPT !.isBusy = TRUE, !.data = <<>>]
    /\ pqInFlight' = pqInFlight \cup {[query |-> pqSubmitted', done |-> FALSE]}
    /\ PqueryHandled

\* SubmitQueryDone of submission q
PquerySubmitQueryDone(q) ==
    /\ [query |-> q, done |-> FALSE] \in pqInFlight
    /\ pqInFlight' = (pqInFlight \ {[query |-> q, done |-> FALSE]})
                        \cup {[query |-> q, done |-> TRUE]}
    /\ pqState' = [pqState EXCEPT !.isBusy = FALSE, !.queryId = Some(q)]
    /\ UNCHANGED pqSubmitted
    /\ PqueryHandled

PquerySortLines(key) ==
    /\ pqState' = sortData([pqState EXCEPT !.sortKey = key])
    /\ UNCHANGED <<pqSubmitted, pqInFlight>>
    /\ PqueryHandled

\* AsyncResultRecieved with the result of submission q
PqueryAsyncResultRecieved(q) ==
    /\ [query |-> q, done |-> TRUE] \in pqInFlight
    /\ pqInFlight' = pqInFlight \ {[query |-> q, done |-> TRUE]}
    /\ pqState' = [sortData([pqState EXCEPT !.data = PqueryResultOf(q)])
                        EXCEPT !.isVisible = TRUE]
    /\ UNCHANGED pqSubmitted
    /\ PqueryHandled

\* initState of the page: no result yet
InitPquery ==
    /\ pqState = [isBusy |-> FALSE, isVisible |-> FALSE, data |-> <<>>,
                  queryId |-> None, sortKey |-> [column |-> "freq", reverse |-> TRUE]]
    /\ pqSubmitted = 0
    /\ pqInFlight = {}

NextPquery ==
    \/ PquerySubmitQuery
    \/ \E q \in 1..MaxSubmits : PquerySubmitQueryDone(q)
    \/ \E key \in PquerySortKeys : PquerySortLines(key)
    \/ \E q \in 1..MaxSubmits : PqueryAsyncResultRecieved(q)

(***************************************************************************)
(* Specifications                                                          *)
(***************************************************************************)
\* the models start together; a specification exercises one of them
InitModels(form, listening, ratio, replay) ==
    /\ InitTT(form)
    /\ InitMixerIdle
    /\ mixerListening = listening
    /\ IF ratio THEN InitRatio ELSE InitRatioIdle
    /\ IF replay THEN InitReplay ELSE InitReplayIdle
    /\ InitList
    /\ InitPub
    /\ InitPquery

InitSpecTT == InitModels(FullForm, FALSE, FALSE, FALSE)
\* the page with a form of full lists only
InitPage == InitModels(SelectionForm, FALSE, FALSE, FALSE)
InitSpecTTMixer == InitModels(SelectionForm, TRUE, FALSE, FALSE)
InitSpecRatio == InitModels(SelectionForm, FALSE, TRUE, FALSE)
InitSpecMixer == InitModels(MixerForm, TRUE, FALSE, FALSE)
InitSpecReplay == InitModels(SelectionForm, FALSE, FALSE, TRUE)

NextRatio == CalcInitialRatio

NextReplay == ImportOperation

\* a text types form with a text input attribute
SpecTT == InitSpecTT /\ [][NextTT]_vars

\* a text types form of full lists only
SpecTTSelection == InitPage /\ [][NextTT]_vars

\* the same form with the subcorpus mixer plug-in listening
SpecTTMixer == InitSpecTTMixer /\ [][NextTT]_vars

\* safeCalcInitialRatio over the indices of a group
SpecRatio == InitSpecRatio /\ [][NextRatio]_vars

\* the subcorpus mixer on a form with two attributes
SpecMixer == InitSpecMixer /\ [][NextMixer]_vars

\* the server answers every request of the subcorpus mixer
MixerResponse ==
    \/ \E result \in CalculationResults : SubmitTaskDone(result)
    \/ \E messages \in {1, 2} : SubmitTaskError(messages)
    \/ \E ok \in BOOLEAN : CreateSubcorpusResponse(ok)

\* SubcMixerModel with a server that answers
SpecMixerFair == SpecMixer /\ WF_vars(MixerResponse)

\* the subcorpus list page
SpecList == InitPage /\ [][NextList]_vars

\* importEncodedOperation
SpecReplay == InitSpecReplay /\ [][NextReplay]_vars

\* the page of published subcorpora
SpecPub == InitPage /\ [][NextPub]_vars

\* the page of published subcorpora with a server that answers
SpecPubFair == SpecPub /\ WF_vars(PubResponse)

\* the paradigmatic query page
SpecPquery == InitPage /\ [][NextPquery]_vars

(***************************************************************************)
(* Properties of TextTypesModel                                            *)
(***************************************************************************)

\* C1: selectionHistory holds at least one item (the initial state) in every
\* reachable state, whatever actions were handled.
C1_HistoryNeverEmpty == Len(selectionHistory) >= 1

\* C4: SubcMixerModel.ttAttributes equals TextTypesModel.getAttributes()
\* whenever no TT_SELECTION_CHANGED waits for delivery (dispatch() delivers
\* at once, so none ever waits).
C4_MixerHoldsCopy == ttAttributes = getAttributes

\* C6: getInitialAvailableValues() returns the attribute list the constructor
\* built, in every reachable state.
C6_InitialValuesKept == getInitialAvailableValues = ConstructorAttributes

\* the auto-complete operations with an attrName that names a full-list
\* attribute or no attribute
AutoCompleteOffTextInput ==
    \E an \in {FullAttr, NoAttr} :
        \/ \E d \in AutoCompleteData : AutoCompleteRequestDone(an, d)
        \/ \E v \in TextValues : TextInputChanged(an, v)
        \/ AutoCompleteReset(an)

\* C7: TT_ATTRIBUTE_TEXT_INPUT_AUTOCOMPLETE_REQUEST_DONE,
\* TT_ATTRIBUTE_TEXT_INPUT_CHANGED and TT_ATTRIBUTE_AUTO_COMPLETE_RESET whose
\* attrName names a full-list attribute or no attribute leave the attributes
\* unchanged and raise no error.
C7_AutoCompleteOnlyTextInput ==
    [][AutoCompleteOffTextInput =>
          (attributes' = attributes /\ ~ttLast'.threw)]_vars

C10_ResetState ==
    [][ResetState =>
          /\ Len(selectionHistory) >= 1
          /\ attributes' = selectionHistory[1]
          /\ selectionHistory' = <<selectionHistory[1]>>
          /\ \A k \in DOMAIN selectAll' : ~selectAll'[k]
          /\ metaInfo' = {}
          /\ ~hasSelectedItems'
          /\ ttLast'.notified = 1
          /\ UNCHANGED <<minimizedBoxes, ttIsBusy, autoCompleteSupport,
                         bibLabelAttr, bibIdAttr>>]_vars

\* C11: handling one TT_SELECT_ALL_CHECKBOX_CLICKED for an attribute of the
\* form dispatches exactly one TT_SELECTION_CHANGED and does not call
\* applyRange.
C11_SelectAllNotifiesOnce ==
    [][(attributes.defined
          /\ \E an \in {FullAttr, TextAttr} : SelectAllClicked(an)) =>
            (ttLast'.notified = 1 /\ ttLast'.applyRange = 0)]_vars

\* a SubmitCreateSubcorpus has failed: by the validation of the form, or
\* by the error of the server
CreateSubcorpusFailed ==
    /\ mixerLast.name \in {"SubmitCreateSubcorpus", "CreateSubcorpusDone"}
    /\ mixerLast.rejected
    /\ mixerLast.messages = 1

\* C12: after a SubmitCreateSubcorpus that fails (validation error or server
\* error) CreateSubcorpusDone is dispatched and isBusy becomes false again;
\* isBusy does not stay true forever once the request has completed.
C12_CreateSubcorpusDoneClearsBusy == CreateSubcorpusFailed ~> ~mixerIsBusy

\* C13: every action that sets isBusy of PublicSubcorpListModel to true
\* (SET_CORPUS_NAME, SET_CODE_PREFIX) is eventually followed by a
\* DATA_LOAD_DONE that sets isBusy to false, when the server answers every
\* request.
C13_BusyIsCleared ==
    (/\ pubLast.name \in {"PUBSUBC_SET_CORPUS_NAME", "PUBSUBC_SET_CODE_PREFIX"}
     /\ pubState.isBusy)
        ~> (pubLast.name = "PUBSUBC_DATA_LOAD_DONE" /\ ~pubState.isBusy)

\* C14: when a load started by SET_CORPUS_NAME fails, one error message is
\* shown and DATA_LOAD_DONE is reduced to a state with isBusy false and
\* data, corpname and codePrefix as they were.
C14_FailedLoadReduced ==
    [][(pubListening /\ \E idx \in 1..MaxRequests : DataLoadFailed(idx)) =>
            /\ pubLast' = [name |-> "PUBSUBC_DATA_LOAD_DONE", threw |-> FALSE,
                           messages |-> 1]
            /\ pubState' = [pubState EXCEPT !.isBusy = FALSE]]_vars

\* C15: when isBusy of PublicSubcorpListModel is false no request is
\* outstanding and the data is the server's list for the corpus selected
\* last.
C15_DataOfLastRequest ==
    ~pubState.isBusy =>
        /\ pubRequests = <<>>
        /\ \A i \in 1..Len(pubState.data) :
                pubState.data[i].corpname = pubState.corpname

\* C16: once no request of SubcorpListModel is outstanding, lines is the
\* server's list for the sortKey and the filter stored in the state.
C16_LinesOfStoredSortAndFilter ==
    listRequests = <<>> =>
        lines = importServerSubcList(requestArgs(sortKey, filter))

\* C17: after a SubmitQuery the data of PqueryResultModel is empty or the
\* result of the query submitted last, never the result of an earlier one.
C17_DataOfLastSubmit ==
    pqSubmitted > 0 =>
        \A i \in 1..Len(pqState.data) :
            \E j \in 1..Len(PqueryResultOf(pqSubmitted)) :
                pqState.data[i] = PqueryResultOf(pqSubmitted)[j]

(***************************************************************************)
(* Properties of safeCalcInitialRatio                                      *)
(***************************************************************************)

\* C3: for every numItems >= 1, each index below numItems-1 gets
\* 100/numItems rounded to one decimal place (the nearest tenth, halves
\* upwards), the last index gets what remains of 100, and the values of the
\* indices 0..numItems-1 sum to exactly 100.
C3_InitialRatioSplit ==
    currIdx > 0 =>
        /\ (currIdx - 1 < numItems - 1) =>
              /\ 2 * numItems * ratioCurr <= 2 * Hundred + numItems
              /\ 2 * Hundred + numItems < 2 * numItems * (ratioCurr + 1)
              /\ ratioSum = currIdx * ratioCurr
        /\ (currIdx = numItems) =>
              /\ ratioCurr = Hundred - (ratioSum - ratioCurr)
              /\ ratioSum = Hundred

\* C3's case: all three values of a group of three are computed, the last
\* one took the remainder
C3_Witness ==
    /\ numItems = 3
    /\ currIdx = 3
    /\ ratioCurr = 334
    /\ ratioSum = Hundred

(***************************************************************************)
(* Properties of importEncodedOperation                                    *)
(***************************************************************************)
\* the form type of each operation code: query, filter, sort, sample,
\* shuffle, switchmc, subhits and firsthits are the members of
\* Kontext.ConcFormTypes of these names
FormTypeOfOpCode ==
    [c \in OpCodes |->
        CASE c \in {"q", "a"} -> ConcFormTypes.QUERY
          [] c \in {"n", "N", "p", "P"} -> ConcFormTypes.FILTER
          [] c = "s" -> ConcFormTypes.SORT
          [] c = "r" -> ConcFormTypes.SAMPLE
          [] c = "f" -> ConcFormTypes.SHUFFLE
          [] c = "x" -> ConcFormTypes.SWITCHMC
          [] c = "D" -> ConcFormTypes.SUBHITS
          [] c = "F" -> ConcFormTypes.FIRSTHITS]

\* C8: the imported operation has concPersistenceId undefined, the fields op,
\* opid, nicearg, tourl, arg and size of the given operation, and for each of
\* the operation codes q, a, n, N, p, P, s, r, f, x, D, F the form type the
\* table gives, which is defined.
C8_ImportEncodedOperation ==
    imported # NotImported =>
        LET r == imported[1]
        IN /\ r.concPersistenceId = None
           /\ r.op = operation.op
           /\ r.opid = operation.opid
           /\ r.nicearg = operation.nicearg
           /\ r.tourl = operation.tourl
           /\ r.arg = operation.arg
           /\ r.size = operation.size
           /\ operation.opid \in OpCodes =>
                 /\ r.formType # None
                 /\ r.formType = Some(FormTypeOfOpCode[operation.opid])

\* C8's case: a sample operation was imported
C8_Witness ==
    /\ imported # NotImported
    /\ operation.opid = "r"
    /\ imported[1].formType = Some(ConcFormTypes.SAMPLE)
    /\ imported[1].size = 7

(***************************************************************************)
(* Properties of SubcMixerModel                                            *)
(***************************************************************************)
\* the ratios of the shares of each attribute name sum to exactly 100
ratiosSumTo100(shs) ==
    \A k \in {shs[i].attrName : i \in 1..Len(shs)} :
        ~sumIsNaN(shs, k) /\ sumRatios(shs, k) = Hundred

\* C2: after ShowWidget the ratios of the shares of each attribute name sum
\* to exactly 100, and a SubmitTask handled directly after ShowWidget is not
\* rejected by the ratio-sum check of submitTask.
C2_InitialRatiosSumTo100 ==
    [][/\ ShowWidget => ratiosSumTo100(shares')
       /\ (mixerLast.name = "ShowWidget" /\ SubmitTask) => ~mixerLast'.rejected
      ]_vars

(***************************************************************************)
(* Properties of SubcorpListModel                                          *)
(***************************************************************************)
\* a list request is started by SortLines, by UpdateFilter or by the reload
\* after one of the ...Done actions
ListRequestStarted ==
    \/ \E k \in SortKeys : SortLines(k.name, k.reverse)
    \/ \E f \in Filters : UpdateFilter(f)
    \/ \E name \in DoneActions : SubcorpusActionDone(name)

\* C5: the failure of a list request shows exactly one error message, takes
\* the request out of flight without sending another one, and leaves lines,
\* unfinished, relatedCorpora, sortKey and filter as they were; starting the
\* request left them as they were too.
C5_FailedListRequest ==
    [][/\ (\E idx \in 1..MaxRequests : ListRequestFailed(idx)) =>
            /\ listLast'.errors = 1
            /\ Len(listRequests') = Len(listRequests) - 1
            /\ \E idx \in 1..Len(listRequests) :
                  listRequests' = RemoveAt(listRequests, idx)
            /\ UNCHANGED <<lines, unfinished, relatedCorpora, sortKey, filter>>
       /\ ListRequestStarted =>
            /\ listLast'.errors = 0
            /\ UNCHANGED <<lines, unfinished, relatedCorpora, sortKey, filter>>
      ]_vars

\* C5's case: the only request in flight has failed and the list still is
\* the one the page was built with
C5_Witness ==
    /\ listLast = [name |-> "ListRequestFailed", errors |-> 1, infos |-> 0]
    /\ listRequests = <<>>
    /\ lines = importServerSubcList(requestArgs(InitialSortKey, InitialFilter))
    /\ sortKey = InitialSortKey
    /\ filter = InitialFilter

====
